---- MODULE Spec2Model ----
(***************************************************************************)
(* brightsky-rs: the radar precipitation decoder                           *)
(* (MaybeCompressedPrecipitation::deserialize, src/src/types.rs), the four *)
(* query builders (src/src/*/query_builder.rs) and BrightSkyClient::get    *)
(* (src/src/lib.rs).                                                       *)
(*                                                                         *)
(* A JSON value is a record with a "type" field:                           *)
(*   [type |-> "Array",  items |-> <<v1, ..., vn>>]                        *)
(*   [type |-> "String", s |-> <<"e", "A", "E", "=">>]  (one char each)    *)
(*   [type |-> "Number", kind |-> "PosInt" | "NegInt" | "Float", n |-> i]  *)
(*   [type |-> "Bool", b |-> ...], [type |-> "Null"], [type |-> "Object"]  *)
(* The number kinds are serde_json's: a non-negative integer literal is a  *)
(* PosInt, a negative one a NegInt, a literal with a fraction or exponent  *)
(* a Float (n then holds the value times ten: 15 is 1.5).                  *)
(* A byte is a number in 0..255, a sample a number in 0..65535.            *)
(***************************************************************************)
EXTENDS Integers, Sequences, FiniteSets, TLC

VARIABLES
    pc,       \* "idle": waiting for a value; "ready": value parsed; "done": decoded
    value,    \* the JSON value at the precipitation_5 key
    origin,   \* how the server produced the value, and from which samples/bytes
    result,   \* what deserialize returned
    steps,    \* the stages deserialize went through, in order
    history,  \* the decodes of a run of decodes: value and result of each
    builder,  \* the query builder being set up, field by field
    built,    \* what build() returned for it
    url,      \* what to_url returned for it
    given,    \* the argument of the last call of each setter on the builder,
              \* and whether a call has replaced an earlier argument
    cpc,      \* BrightSkyClient::get: "idle", "waiting" (at the await), "done"
    request,  \* the builder and host of the get call
    reply,    \* what the HTTP client answered
    outcome,  \* what get returned
    trail,    \* the steps the get call has run, in order
    icon,     \* a WeatherIcon being deserialized: the JSON value and the result
    tasks     \* decodes running side by side: value, position and buffer of each

decoderVars == <<pc, value, origin, result, steps>>
builderVars == <<builder, built, url, given>>
clientVars == <<cpc, request, reply, outcome, trail>>

vars == <<pc, value, origin, result, steps, history,
          builder, built, url, given, cpc, request, reply, outcome, trail,
          icon, tasks>>

\* ------------------------------------------------------------------ bounds

MaxRows == 2
MaxCells == 2
MaxSamples == 2
MaxPayload == 3
MaxStrLen == 4
MaxRawTail == 5
MaxDecodes == 3
MaxRecords == 2
MaxTagLen == 4
MaxTasks == 2

\* ------------------------------------------------------------- JSON values

JArray(items) == [type |-> "Array", items |-> items]
JString(s) == [type |-> "String", s |-> s]
JPosInt(n) == [type |-> "Number", kind |-> "PosInt", n |-> n]
JNegInt(n) == [type |-> "Number", kind |-> "NegInt", n |-> n]
JFloat(n) == [type |-> "Number", kind |-> "Float", n |-> n]
JBool(b) == [type |-> "Bool", b |-> b]
JNull == [type |-> "Null"]
JObject == [type |-> "Object"]

\* A bug: the element read as a signed integer (as_i64), so that a negative
\* one passes.
AsU64Signed(v) ==
    IF v.type = "Number" /\ v.kind \in {"PosInt", "NegInt"}
    THEN [some |-> TRUE, n |-> v.n]
    ELSE [some |-> FALSE, n |-> 0]

\* serde_json::Value::as_u64: Some(n) for a PosInt only.
AsU64(v) ==
    IF v.type = "Number" /\ v.kind = "PosInt"
    THEN [some |-> TRUE, n |-> v.n]
    ELSE [some |-> FALSE, n |-> 0]

\* A bug: the cast one byte too narrow (`as u8`).
AsU8(n) == n % 256

\* `x as u16` on a u64: the low 16 bits.
AsU16(n) == n % 65536

\* ------------------------------------------------------------------ base64

B64Alphabet ==
    << "A","B","C","D","E","F","G","H","I","J","K","L","M","N","O","P",
       "Q","R","S","T","U","V","W","X","Y","Z","a","b","c","d","e","f",
       "g","h","i","j","k","l","m","n","o","p","q","r","s","t","u","v",
       "w","x","y","z","0","1","2","3","4","5","6","7","8","9","+","/" >>

B64Pad == "="

\* The value (0..63) of each symbol.
B64Values ==
    [c \in {B64Alphabet[i] : i \in 1..64} |->
        (CHOOSE i \in 1..64 : B64Alphabet[i] = c) - 1]

IsB64Symbol(c) == c \in DOMAIN B64Values

B64Index(c) == B64Values[c]

B64Char(i) == B64Alphabet[i + 1]

\* The number of trailing pad characters of s.
RECURSIVE TrailingPads(_)
TrailingPads(s) ==
    IF Len(s) > 0 /\ s[Len(s)] = B64Pad
    THEN 1 + TrailingPads(SubSeq(s, 1, Len(s) - 1))
    ELSE 0

\* The bytes of a run of symbols: four symbols give three bytes, a last group
\* of three gives two, of two gives one (the low bits of its last symbol are
\* dropped).
RECURSIVE B64Bytes(_)
B64Bytes(syms) ==
    IF Len(syms) < 2 THEN <<>>
    ELSE
        LET a == B64Index(syms[1])
            b == B64Index(syms[2])
            b1 == a * 4 + (b \div 16)
        IN  IF Len(syms) = 2 THEN <<b1>>
            ELSE
                LET c == B64Index(syms[3])
                    b2 == (b % 16) * 16 + (c \div 4)
                IN  IF Len(syms) = 3 THEN <<b1, b2>>
                    ELSE
                        LET d == B64Index(syms[4])
                            b3 == (c % 4) * 64 + d
                        IN  <<b1, b2, b3>> \o B64Bytes(SubSeq(syms, 5, Len(syms)))

\* general_purpose::STANDARD.decode: the standard alphabet, canonical padding
\* required, no trailing bits allowed.
B64Decode(s) ==
    LET n == Len(s)
        p == TrailingPads(s)
        syms == SubSeq(s, 1, n - p)
        k == Len(syms) % 4
        last == B64Index(syms[Len(syms)])
        valid ==
            /\ n % 4 = 0
            /\ p <= 2
            /\ \A i \in 1..Len(syms) : IsB64Symbol(syms[i])
            /\ k # 1
            /\ (k = 2 => last % 16 = 0)
            /\ (k = 3 => last % 4 = 0)
    IN  IF valid THEN [ok |-> TRUE, bytes |-> B64Bytes(syms)]
        ELSE [ok |-> FALSE, bytes |-> <<>>]

\* The server's side: standard base64 with padding.
RECURSIVE B64Encode(_)
B64Encode(bytes) ==
    IF Len(bytes) = 0 THEN <<>>
    ELSE
        LET b1 == bytes[1]
            b2 == IF Len(bytes) >= 2 THEN bytes[2] ELSE 0
            b3 == IF Len(bytes) >= 3 THEN bytes[3] ELSE 0
            c1 == B64Char(b1 \div 4)
            c2 == B64Char((b1 % 4) * 16 + (b2 \div 16))
            c3 == B64Char((b2 % 16) * 4 + (b3 \div 64))
            c4 == B64Char(b3 % 64)
        IN  IF Len(bytes) = 1 THEN <<c1, c2, B64Pad, B64Pad>>
            ELSE IF Len(bytes) = 2 THEN <<c1, c2, c3, B64Pad>>
            ELSE <<c1, c2, c3, c4>> \o B64Encode(SubSeq(bytes, 4, Len(bytes)))

\* -------------------------------------------------------------------- zlib

\* Adler-32 of a byte sequence, as the pair <<s1, s2>>.
RECURSIVE Adler32(_)
Adler32(bytes) ==
    IF Len(bytes) = 0 THEN <<1, 0>>
    ELSE
        LET prev == Adler32(SubSeq(bytes, 1, Len(bytes) - 1))
            s1 == (prev[1] + bytes[Len(bytes)]) % 65521
        IN  <<s1, (prev[2] + s1) % 65521>>

\* The four checksum bytes that end a zlib stream (big-endian s2, s1).
AdlerTrailer(bytes) ==
    LET a == Adler32(bytes)
    IN  <<a[2] \div 256, a[2] % 256, a[1] \div 256, a[1] % 256>>

\* The two header bytes of a zlib stream are accepted: deflate method,
\* window of at most 32 KiB, no preset dictionary, check bits right.
ZlibHeaderOk(cmf, flg) ==
    /\ cmf % 16 = 8
    /\ cmf \div 16 <= 7
    /\ (flg \div 32) % 2 = 0
    /\ (cmf * 256 + flg) % 31 = 0

\* A Huffman-coded block needs at least 10 bits, and the stream four
\* checksum bytes after it.
MinHuffmanTail == 6

InflateFailed == [ok |-> FALSE, modelled |-> TRUE, out |-> <<>>]

\* The deflate blocks of a zlib stream from byte pos on (every block of the
\* modelled streams starts on a byte boundary), out being the output so far.
\* Any corruption or truncation fails the whole inflation; bytes after the
\* checksum are left unread. A Huffman-coded block that could still be
\* complete is outside the model (modelled = FALSE).
RECURSIVE InflateBlocks(_, _, _)
InflateBlocks(bytes, pos, out) ==
    IF pos > Len(bytes) THEN InflateFailed
    ELSE
        LET bfinal == bytes[pos] % 2
            btype == (bytes[pos] \div 2) % 4
        IN  IF btype = 3 THEN InflateFailed
            ELSE IF btype # 0 THEN
                IF Len(bytes) - pos + 1 < MinHuffmanTail THEN InflateFailed
                ELSE [ok |-> FALSE, modelled |-> FALSE, out |-> <<>>]
            ELSE IF pos + 4 > Len(bytes) THEN InflateFailed
            ELSE
                LET len == bytes[pos + 1] + 256 * bytes[pos + 2]
                    nlen == bytes[pos + 3] + 256 * bytes[pos + 4]
                    next == pos + 5 + len
                    data == SubSeq(bytes, pos + 5, next - 1)
                IN  IF len + nlen # 65535 THEN InflateFailed
                    ELSE IF next - 1 > Len(bytes) THEN InflateFailed
                    ELSE IF bfinal = 0 THEN InflateBlocks(bytes, next, out \o data)
                    ELSE IF next + 3 > Len(bytes) THEN InflateFailed
                    ELSE IF SubSeq(bytes, next, next + 3) # AdlerTrailer(out \o data)
                         THEN InflateFailed
                    ELSE [ok |-> TRUE, modelled |-> TRUE, out |-> out \o data]

\* flate2::read::ZlibDecoder::new(bytes).read_to_end(&mut decompressed):
\* ok with the whole output, or failed. With flate2's default backend
\* (miniz_oxide) a stream that ends early is an error like a corrupt one.
Inflate(bytes) ==
    IF Len(bytes) < 2 THEN InflateFailed
    ELSE IF ~ZlibHeaderOk(bytes[1], bytes[2]) THEN InflateFailed
    ELSE InflateBlocks(bytes, 3, <<>>)

\* The server's side: a zlib stream of one stored (uncompressed) final block
\* under the header <<120, flg>>.
ZlibStored(bytes, flg) ==
    LET len == Len(bytes)
        nlen == 65535 - len
    IN  <<120, flg, 1, len % 256, len \div 256, nlen % 256, nlen \div 256>>
            \o bytes \o AdlerTrailer(bytes)

\* ---------------------------------------------------------------- samples

\* The server's side: each sample as two bytes, low byte first.
RECURSIVE ToLeBytes(_)
ToLeBytes(samples) ==
    IF Len(samples) = 0 THEN <<>>
    ELSE <<samples[1] % 256, samples[1] \div 256>>
            \o ToLeBytes(SubSeq(samples, 2, Len(samples)))

\* A bug: the two bytes read high byte first (from_be_bytes).
U16FromBeBytes(lo, hi) == hi + 256 * lo

\* u16::from_le_bytes([chunk[0], chunk[1]])
U16FromLeBytes(lo, hi) == lo + 256 * hi

\* A bug: chunks(2) for chunks_exact(2), a last odd byte kept as a sample.
ChunksKeepingLast(bytes) ==
    [i \in 1..((Len(bytes) + 1) \div 2) |->
        IF 2 * i <= Len(bytes)
        THEN bytes[2 * i - 1] + 256 * bytes[2 * i]
        ELSE bytes[2 * i - 1]]

\* A bug: the chunks collected from the end of the buffer.
ChunksReversed(bytes) ==
    [i \in 1..(Len(bytes) \div 2) |->
        LET j == (Len(bytes) \div 2) + 1 - i
        IN  bytes[2 * j - 1] + 256 * bytes[2 * j]]

\* bytes.chunks_exact(2).map(u16::from_le_bytes).collect()
ChunksToU16(bytes) ==
    [i \in 1..(Len(bytes) \div 2) |-> U16FromLeBytes(bytes[2 * i - 1], bytes[2 * i])]

\* ---------------------------------------------------------------- decoder

OkPlain(rows) == [ok |-> TRUE, variant |-> "Plain", data |-> rows]
OkCompressed(values) == [ok |-> TRUE, variant |-> "Compressed", data |-> values]
OkBytes(values) == [ok |-> TRUE, variant |-> "Bytes", data |-> values]
Err(msg) == [ok |-> FALSE, msg |-> msg]

\* The inner loop: every element through as_u64 and `as u16`; the first
\* element that is no u64 ends the decode.
DecodeRow(inner_array) ==
    IF \E i \in 1..Len(inner_array) : ~AsU64(inner_array[i]).some
    THEN Err("Invalid array element")
    ELSE [ok |-> TRUE,
          row |-> [i \in 1..Len(inner_array) |-> AsU16(AsU64(inner_array[i]).n)]]

\* A bug: an outer element that is no array is skipped, the rows around it
\* returned.
RECURSIVE DecodeRowsSkipping(_)
DecodeRowsSkipping(outer) ==
    IF Len(outer) = 0 THEN OkPlain(<<>>)
    ELSE IF outer[1].type # "Array"
         THEN DecodeRowsSkipping(SubSeq(outer, 2, Len(outer)))
    ELSE
        LET row == DecodeRow(outer[1].items)
        IN  IF ~row.ok THEN row
            ELSE
                LET rest == DecodeRowsSkipping(SubSeq(outer, 2, Len(outer)))
                IN  IF ~rest.ok THEN rest
                    ELSE OkPlain(<<row.row>> \o rest.data)

\* The outer loop, front to back: the first outer element that is no array,
\* or whose row fails, ends the decode.
RECURSIVE DecodeRows(_)
DecodeRows(outer) ==
    IF Len(outer) = 0 THEN OkPlain(<<>>)
    ELSE IF outer[1].type # "Array" THEN Err("Expected nested array")
    ELSE
        LET row == DecodeRow(outer[1].items)
        IN  IF ~row.ok THEN row
            ELSE
                LET rest == DecodeRows(SubSeq(outer, 2, Len(outer)))
                IN  IF ~rest.ok THEN rest
                    ELSE OkPlain(<<row.row>> \o rest.data)

\* A bug: the inflation failure surfaced (`?` on read_to_end) instead of the
\* raw fallback.
DecodeStringStrict(s) ==
    LET decoded == B64Decode(s)
        decompressed == Inflate(decoded.bytes)
    IN  IF ~decoded.ok THEN
            [result |-> Err("Base64 decode error"), steps |-> <<"base64">>]
        ELSE IF decompressed.ok THEN
            [result |-> OkCompressed(ChunksToU16(decompressed.out)),
             steps |-> <<"base64", "inflate">>]
        ELSE
            [result |-> Err("Zlib decode error"), steps |-> <<"base64", "inflate">>]

\* A bug: a base64 failure swallowed (unwrap_or_default), the empty buffer
\* decoded on.
DecodeStringLenient(s) ==
    LET decoded == B64Decode(s)
        decompressed == Inflate(decoded.bytes)
    IN  IF decompressed.ok THEN
            [result |-> OkCompressed(ChunksToU16(decompressed.out)),
             steps |-> <<"base64", "inflate">>]
        ELSE
            [result |-> OkBytes(ChunksToU16(decoded.bytes)),
             steps |-> <<"base64", "inflate">>]

\* The string branch: base64, then the zlib attempt, then the raw fallback.
DecodeString(s) ==
    LET decoded == B64Decode(s)
        decompressed == Inflate(decoded.bytes)
    IN  IF ~decoded.ok THEN
            [result |-> Err("Base64 decode error"), steps |-> <<"base64">>]
        ELSE IF decompressed.ok THEN
            [result |-> OkCompressed(ChunksToU16(decompressed.out)),
             steps |-> <<"base64", "inflate">>]
        ELSE
            [result |-> OkBytes(ChunksToU16(decoded.bytes)),
             steps |-> <<"base64", "inflate">>]

\* A bug: null taken for an empty grid.
DeserializeNullAsEmpty(v) ==
    IF v.type = "Array" THEN [result |-> DecodeRows(v.items), steps |-> <<"rows">>]
    ELSE IF v.type = "String" THEN DecodeString(v.s)
    ELSE IF v.type = "Null" THEN [result |-> OkPlain(<<>>), steps |-> <<>>]
    ELSE [result |-> Err("Expected string or array"), steps |-> <<>>]

\* A bug: a decoder that keeps its sample buffer between calls, so that a
\* decode returns the samples of the decode before it too.
DeserializeReusingBuffer(v) ==
    LET run == IF v.type = "Array"
               THEN [result |-> DecodeRows(v.items), steps |-> <<"rows">>]
               ELSE IF v.type = "String" THEN DecodeString(v.s)
               ELSE [result |-> Err("Expected string or array"), steps |-> <<>>]
        last == IF history = <<>> THEN Err("") ELSE history[Len(history)].result
    IN  IF run.result.ok /\ last.ok /\ last.variant = run.result.variant
        THEN [result |-> [run.result EXCEPT !.data = last.data \o @],
              steps |-> run.steps]
        ELSE run

\* A bug: an array of numbers taken for the bytes of a binary payload.
DeserializeNumbersAsBytes(v) ==
    IF v.type = "Array" /\ v.items # <<>>
       /\ \A i \in DOMAIN v.items : v.items[i].type = "Number"
    THEN [result |-> OkBytes(ChunksToU16([i \in DOMAIN v.items |-> v.items[i].n % 256])),
          steps |-> <<"inflate">>]
    ELSE IF v.type = "Array" THEN [result |-> DecodeRows(v.items), steps |-> <<"rows">>]
    ELSE IF v.type = "String" THEN DecodeString(v.s)
    ELSE [result |-> Err("Expected string or array"), steps |-> <<>>]

\* MaybeCompressedPrecipitation::deserialize on a parsed JSON value: what it
\* returns, and the stages it went through.
DeserializeValue(v) ==
    IF v.type = "Array" THEN [result |-> DecodeRows(v.items), steps |-> <<"rows">>]
    ELSE IF v.type = "String" THEN DecodeString(v.s)
    ELSE [result |-> Err("Expected string or array"), steps |-> <<>>]

\* The error kind of a failed decode, by the message the decoder gives it.
ErrorKind(r) ==
    CASE r.msg \in {"Invalid array element", "Expected nested array"} -> "InvalidRow"
      [] r.msg = "Base64 decode error" -> "InvalidBase64"
      [] r.msg = "Expected string or array" -> "UnexpectedShape"
      [] OTHER -> "Other"

\* ------------------------------------------------------------------ inputs

SeqsUpTo(S, n) == UNION {[1..k -> S] : k \in 0..n}

\* What a row of the plain format may hold: samples in range, integers past
\* 16 bits, and every kind of value that is no unsigned integer.
RowElements ==
    { JPosInt(0), JPosInt(7), JPosInt(65535), JPosInt(65536), JPosInt(65543),
      JNegInt(-1), JFloat(15), JString(<<"7">>), JBool(TRUE), JNull,
      JArray(<<>>), JObject }

\* Outer elements that are no rows.
NotRows == { JPosInt(3), JString(<<"e", "A", "E", "=">>), JNull }

\* The shape of an outer array: per element the length of the row, or NotRow
\* for an element that is no row. At most MaxRows elements, at most MaxCells
\* row elements in all.
NotRow == -1

RECURSIVE CellsOf(_)
CellsOf(shape) ==
    IF Len(shape) = 0 THEN 0
    ELSE (IF shape[1] = NotRow THEN 0 ELSE shape[1]) + CellsOf(Tail(shape))

NotRowsOf(shape) == Cardinality({i \in 1..Len(shape) : shape[i] = NotRow})

GridShapes ==
    {shape \in SeqsUpTo({NotRow} \cup (0..MaxCells), MaxRows) : CellsOf(shape) <= MaxCells}

\* The outer array of a shape, its rows filled from cells and its other
\* elements from others, in order.
RECURSIVE BuildGrid(_, _, _)
BuildGrid(shape, cells, others) ==
    IF Len(shape) = 0 THEN <<>>
    ELSE IF shape[1] = NotRow
         THEN <<others[1]>> \o BuildGrid(Tail(shape), cells, Tail(others))
         ELSE <<JArray(SubSeq(cells, 1, shape[1]))>>
                \o BuildGrid(Tail(shape), SubSeq(cells, shape[1] + 1, Len(cells)), others)

\* Samples the server encodes: both ends of the range, and values whose two
\* bytes differ.
SampleValues == {0, 7, 376, 65280, 65535}

\* Byte payloads that are no whole number of samples are drawn from these.
PayloadBytes == {0, 1, 120, 255}

\* Samples whose bytes, low byte first, are the bytes zlib streams are made of:
\* 376 is the header <<120, 1>>.
ZlibLikeSamples == {376, 257, 65024, 255, 256}

\* The FLG byte of the header: compression level 0 or the default.
ZlibFlags == {1, 156}

\* Characters of arbitrary strings: symbols, the pad and a character outside
\* the alphabet.
StringChars == {"e", "A", "E", "B", "=", "!"}

OtherValues ==
    { JNull, JBool(TRUE), JBool(FALSE), JPosInt(5), JNegInt(-5), JFloat(25), JObject }

NoOrigin == [how |-> "none", samples |-> <<>>, payload |-> <<>>]
Pending == [pending |-> TRUE]

\* The decoder's zlib attempt on s stays inside the modelled part of inflate.
InflateModelled(s) ==
    LET decoded == B64Decode(s)
    IN  decoded.ok => Inflate(decoded.bytes).modelled

\* ----------------------------------------------- strings and numbers
\* A string is a sequence of one-character strings.  An f64 is a record
\* [class, tenths]: class "finite" with the value times ten (905 is 90.5),
\* or "nan", "inf", "-inf" with tenths 0.  Options are None and Some(x).

None == [some |-> FALSE]
Some(x) == [some |-> TRUE, val |-> x]

Range(s) == {s[i] : i \in DOMAIN s}

DigitChars == <<"0", "1", "2", "3", "4", "5", "6", "7", "8", "9">>

DigitValues ==
    [c \in Range(DigitChars) |->
        CHOOSE i \in 0..9 : DigitChars[i + 1] = c]

IsDigit(c) == c \in DOMAIN DigitValues

RECURSIVE Digits(_)
\* The decimal digits of a natural number (Display for integers).
Digits(n) ==
    IF n < 10 THEN <<DigitChars[n + 1]>>
    ELSE Digits(n \div 10) \o <<DigitChars[(n % 10) + 1]>>

RECURSIVE DigitsValue(_)
\* The number a non-empty string of digits denotes.
DigitsValue(s) ==
    IF Len(s) = 0 THEN 0
    ELSE 10 * DigitsValue(SubSeq(s, 1, Len(s) - 1)) + DigitValues[s[Len(s)]]

Finite(t) == [class |-> "finite", tenths |-> t]
NaN == [class |-> "nan", tenths |-> 0]
Infinity == [class |-> "inf", tenths |-> 0]
NegInfinity == [class |-> "-inf", tenths |-> 0]

Abs(t) == IF t < 0 THEN -t ELSE t

\* format!("{}", x) for an f64: no exponent, no fraction for a whole number.
DisplayF64(x) ==
    CASE x.class = "nan" -> <<"N", "a", "N">>
      [] x.class = "inf" -> <<"i", "n", "f">>
      [] x.class = "-inf" -> <<"-", "i", "n", "f">>
      [] OTHER ->
            (IF x.tenths < 0 THEN <<"-">> ELSE <<>>)
            \o Digits(Abs(x.tenths) \div 10)
            \o (IF Abs(x.tenths) % 10 = 0 THEN <<>>
                ELSE <<".", DigitChars[(Abs(x.tenths) % 10) + 1]>>)

\* with_lat_lon: a coordinate printed without a point gets ".0" appended.
CoordString(x) ==
    LET s == DisplayF64(x)
    IN  IF "." \in Range(s) THEN s ELSE s \o <<".", "0">>

\* str::parse::<f64>: an optional sign, then "NaN", "inf" or digits with at
\* most one point and at least one digit; anything else is a ParseFloatError.
\* The value keeps the first digit of the fraction.
ParseF64(s) ==
    LET neg == Len(s) > 0 /\ s[1] = "-"
        signed == Len(s) > 0 /\ s[1] \in {"-", "+"}
        body == IF signed THEN SubSeq(s, 2, Len(s)) ELSE s
        points == {i \in DOMAIN body : body[i] = "."}
        p == IF points = {} THEN Len(body) + 1 ELSE CHOOSE i \in points : TRUE
        whole == SubSeq(body, 1, p - 1)
        frac == SubSeq(body, p + 1, Len(body))
        magnitude == 10 * DigitsValue(whole)
                     + (IF Len(frac) = 0 THEN 0 ELSE DigitValues[frac[1]])
    IN  IF body = <<"N", "a", "N">> THEN [ok |-> TRUE, val |-> NaN]
        ELSE IF body = <<"i", "n", "f">>
        THEN [ok |-> TRUE, val |-> IF neg THEN NegInfinity ELSE Infinity]
        ELSE IF /\ Cardinality(points) <= 1
                /\ Len(whole) + Len(frac) > 0
                /\ \A i \in DOMAIN whole : IsDigit(whole[i])
                /\ \A i \in DOMAIN frac : IsDigit(frac[i])
        THEN [ok |-> TRUE, val |-> Finite(IF neg THEN -magnitude ELSE magnitude)]
        ELSE [ok |-> FALSE, val |-> NaN]

\* A bug: a range check that leaves out its upper bound.
ContainsExclusive(lo, hi, x) ==
    x.class = "finite" /\ 10 * lo <= x.tenths /\ x.tenths < 10 * hi

\* (lo..=hi).contains(&x) on f64: false for NaN and the infinities.
Contains(lo, hi, x) ==
    x.class = "finite" /\ 10 * lo <= x.tenths /\ x.tenths <= 10 * hi

\* The largest u32 and i64 and the magnitude of the smallest i64, as digits
\* (the numbers of the model end at 2^31 - 1).
U32MaxDigits == <<"4", "2", "9", "4", "9", "6", "7", "2", "9", "5">>
I64MaxDigits ==
    <<"9", "2", "2", "3", "3", "7", "2", "0", "3", "6",
      "8", "5", "4", "7", "7", "5", "8", "0", "7">>
I64MinDigits ==
    <<"9", "2", "2", "3", "3", "7", "2", "0", "3", "6",
      "8", "5", "4", "7", "7", "5", "8", "0", "8">>

RECURSIVE StripZeros(_)
StripZeros(s) ==
    IF Len(s) > 1 /\ s[1] = "0" THEN StripZeros(SubSeq(s, 2, Len(s))) ELSE s

\* Whether the number a string of digits denotes is at most the one max denotes.
FitsIn(s, max) ==
    LET a == StripZeros(s)
    IN  \/ Len(a) < Len(max)
        \/ /\ Len(a) = Len(max)
           /\ \/ a = max
              \/ \E i \in DOMAIN a :
                    /\ \A j \in 1..(i - 1) : a[j] = max[j]
                    /\ DigitValues[a[i]] < DigitValues[max[i]]

\* str::parse::<u32>: digits (an optional "+" before them) within u32.
ParseU32(s) ==
    LET body == IF Len(s) > 0 /\ s[1] = "+" THEN SubSeq(s, 2, Len(s)) ELSE s
    IN  IF /\ Len(body) > 0
           /\ \A i \in DOMAIN body : IsDigit(body[i])
           /\ FitsIn(body, U32MaxDigits)
        THEN [ok |-> TRUE, val |-> DigitsValue(body)]
        ELSE [ok |-> FALSE, val |-> 0]

\* i64::to_string
I64String(n) == (IF n < 0 THEN <<"-">> ELSE <<>>) \o Digits(Abs(n))

\* str::parse::<i64>: an optional sign, then digits, within i64.
ParseI64(s) ==
    LET neg == Len(s) > 0 /\ s[1] = "-"
        signed == Len(s) > 0 /\ s[1] \in {"-", "+"}
        body == IF signed THEN SubSeq(s, 2, Len(s)) ELSE s
    IN  IF /\ Len(body) > 0
           /\ \A i \in DOMAIN body : IsDigit(body[i])
           /\ FitsIn(body, IF neg THEN I64MinDigits ELSE I64MaxDigits)
        THEN [ok |-> TRUE, val |-> IF neg THEN -DigitsValue(body) ELSE DigitsValue(body)]
        ELSE [ok |-> FALSE, val |-> 0]

\* NaiveDate's Display: YYYY-MM-DD, zero-padded.
DateString(date) ==
    LET pad(n, w) == [i \in 1..(w - Len(Digits(n))) |-> "0"] \o Digits(n)
    IN  pad(date.y, 4) \o <<"-">> \o pad(date.m, 2) \o <<"-">> \o pad(date.d, 2)

\* ----------------------------------------------------------- query builders
\* A builder is a record of its kind and its fields, every field an Option.
\* A field a kind of builder does not have stays None.

BuilderKinds == {"current_weather", "weather", "radar", "alerts"}

\* ::new() of the four builders
NewBuilder(kind) ==
    [kind |-> kind,
     lat |-> None, lon |-> None, max_dist |-> None,
     date |-> None, last_date |-> None,
     dwd_station_id |-> None, wmo_station_id |-> None, source_id |-> None,
     tz |-> None, units |-> None,
     bbox |-> None, distance |-> None, compression_format |-> None,
     warn_cell_id |-> None]

NoBuilder == NewBuilder("none")

\* Neither Ok nor Err: the function was not called.
NotCalled == [called |-> FALSE]

BOk(b) == [called |-> TRUE, ok |-> TRUE, val |-> b]
BErr(error, arg) == [called |-> TRUE, ok |-> FALSE, error |-> error, arg |-> arg]

NoArg == [class |-> "none", tenths |-> 0]

MaxDistLimit == 500000

\* The latitude check of the alerts builder.
CheckLatAlerts(b) ==
    IF ~b.lat.some THEN BOk(b)
    ELSE LET lat == ParseF64(b.lat.val)
         IN  IF ~lat.ok THEN BErr("ParseFloatError", NoArg)
             ELSE IF ~Contains(-90, 90, lat.val)
             THEN BErr("InvalidLatitude", lat.val)
             ELSE BOk(b)

\* A bug: the latitude reported under its own name, as the alerts builder does.
CheckLatByName(b) == CheckLatAlerts(b)

\* The latitude check of the current weather, weather and radar builders.
CheckLat(b) ==
    IF ~b.lat.some THEN BOk(b)
    ELSE LET lat == ParseF64(b.lat.val)
         IN  IF ~lat.ok THEN BErr("ParseFloatError", NoArg)
             ELSE IF ~Contains(-90, 90, lat.val)
             THEN BErr("InvalidLongitude", lat.val)
             ELSE BOk(b)

CheckLon(b) ==
    IF ~b.lon.some THEN BOk(b)
    ELSE LET lon == ParseF64(b.lon.val)
         IN  IF ~lon.ok THEN BErr("ParseFloatError", NoArg)
             ELSE IF ~Contains(-180, 180, lon.val)
             THEN BErr("InvalidLongitude", lon.val)
             ELSE BOk(b)

\* A bug: a limit that rejects the largest distance too.
CheckMaxDistExclusive(b) ==
    IF ~b.max_dist.some THEN BOk(b)
    ELSE LET max_dist == ParseU32(b.max_dist.val)
         IN  IF ~max_dist.ok THEN BErr("ParseIntError", NoArg)
             ELSE IF max_dist.val >= MaxDistLimit
             THEN BErr("InvalidMaxDistance", max_dist.val)
             ELSE BOk(b)

CheckMaxDist(b) ==
    IF ~b.max_dist.some THEN BOk(b)
    ELSE LET max_dist == ParseU32(b.max_dist.val)
         IN  IF ~max_dist.ok THEN BErr("ParseIntError", NoArg)
             ELSE IF max_dist.val > MaxDistLimit
             THEN BErr("InvalidMaxDistance", max_dist.val)
             ELSE BOk(b)

CheckWarnCellId(b) ==
    IF ~b.warn_cell_id.some THEN BOk(b)
    ELSE IF ~ParseI64(b.warn_cell_id.val).ok THEN BErr("ParseIntError", NoArg)
    ELSE BOk(b)

\* A bug: the date looked at after the coordinates.
CheckDateLate(b) ==
    IF ~CheckLat(b).ok THEN CheckLat(b)
    ELSE IF ~CheckLon(b).ok THEN CheckLon(b)
    ELSE IF ~b.date.some THEN BErr("DateNotSet", NoArg)
    ELSE BOk(b)

CheckDate(b) == IF ~b.date.some THEN BErr("DateNotSet", NoArg) ELSE BOk(b)

RECURSIVE LastErr(_, _)
\* A bug: every check run, and the last failure returned.
LastErr(checks, b) ==
    IF checks = <<>> THEN BOk(b)
    ELSE IF ~LastErr(Tail(checks), b).ok THEN LastErr(Tail(checks), b)
    ELSE IF ~Head(checks).ok THEN Head(checks)
    ELSE BOk(b)

RECURSIVE FirstErr(_, _)
\* The checks of a build() in their order, each ended by `?`: the first
\* failure is what build() returns, and Ok(self) if there is none.
FirstErr(checks, b) ==
    IF checks = <<>> THEN BOk(b)
    ELSE IF ~Head(checks).ok THEN Head(checks)
    ELSE FirstErr(Tail(checks), b)

\* A bug: with_lat_lon forgetting the time zone set before.
SetLatLonClearing(b, lat, lon) ==
    [b EXCEPT !.lat = Some(CoordString(lat)), !.lon = Some(CoordString(lon)),
              !.tz = None]

\* with_lat_lon: both coordinates stored as strings
SetLatLon(b, lat, lon) ==
    [b EXCEPT !.lat = Some(CoordString(lat)), !.lon = Some(CoordString(lon))]

\* The setters of the builders, and none of them called yet.
Setters ==
    {"with_lat_lon", "with_max_dist", "with_date", "with_last_date",
     "with_dwd_station_id", "with_wmo_station_id", "with_source_id", "with_tz",
     "with_units", "with_bbox", "with_distance", "with_compression_format",
     "with_warn_cell_id"}
NoneGiven == [args |-> [setter \in Setters |-> None], replaced |-> FALSE]

\* No WeatherIcon is being deserialized.
NoIcon == [called |-> FALSE]

\* build() of the builder's kind: CurrentWeatherQueryBuilder::build,
\* WeatherQueryBuilder::build, RadarWeatherQueryBuilder::build and
\* AlertsQueryBuilder::build.
BuildResult(b) ==
    CASE b.kind = "current_weather" ->
            FirstErr(<<CheckLat(b), CheckLon(b), CheckMaxDist(b)>>, b)
      [] b.kind = "weather" ->
            FirstErr(<<CheckDate(b), CheckLat(b), CheckLon(b), CheckMaxDist(b)>>, b)
      [] b.kind = "radar" ->
            FirstErr(<<CheckLat(b), CheckLon(b)>>, b)
      [] b.kind = "alerts" ->
            FirstErr(<<CheckLatAlerts(b), CheckLon(b), CheckWarnCellId(b)>>, b)

\* ------------------------------------------------------------------- to_url
\* A host is [scheme, authority, segments, dir]: dir says whether its path
\* ends with a slash.  A URL adds the query, a sequence of <<key, value>>.

\* Url::parse(host): a host without a scheme is a relative URL without a
\* base, one without an authority has an empty host.
UrlParse(host) ==
    IF host.scheme = "" \/ host.authority = ""
    THEN BErr("UrlParseError", NoArg)
    ELSE BOk([scheme |-> host.scheme, authority |-> host.authority,
              segments |-> host.segments, dir |-> host.dir, query |-> <<>>])

\* Url::join with a one-segment relative reference: it takes the place of
\* the last segment of the base, unless the base path ends with a slash.
Join(base, name) ==
    [base EXCEPT
        !.segments = (IF base.dir \/ base.segments = <<>> THEN base.segments
                      ELSE SubSeq(base.segments, 1, Len(base.segments) - 1))
                     \o <<name>>,
        !.dir = FALSE]

\* The characters application/x-www-form-urlencoded escapes, of those the
\* builders' values hold.
PercentEncoded ==
    ("/" :> <<"%", "2", "F">>) @@ ("," :> <<"%", "2", "C">>)
    @@ (":" :> <<"%", "3", "A">>) @@ ("+" :> <<"%", "2", "B">>)
    @@ (" " :> <<"+">>)

RECURSIVE FormEncode(_)
FormEncode(s) ==
    IF s = <<>> THEN <<>>
    ELSE (IF Head(s) \in DOMAIN PercentEncoded THEN PercentEncoded[Head(s)]
          ELSE <<Head(s)>>) \o FormEncode(Tail(s))

\* query.append_pair(key, value)
AppendPair(query, key, val) == Append(query, <<key, FormEncode(val)>>)

\* if let Some(x) = self.field { query.append_pair(key, &x) }
AppendSome(query, key, field) ==
    IF field.some THEN AppendPair(query, key, field.val) ELSE query

RECURSIVE AppendEachReversed(_, _, _)
\* A bug: the list walked from its end.
AppendEachReversed(query, key, ids) ==
    IF ids = <<>> THEN query
    ELSE AppendPair(AppendEachReversed(query, key, Tail(ids)), key, Head(ids))

RECURSIVE AppendEach(_, _, _)
AppendEach(query, key, ids) ==
    IF ids = <<>> THEN query
    ELSE AppendEach(AppendPair(query, key, Head(ids)), key, Tail(ids))

\* if let Some(ids) = self.field { for id in ids { query.append_pair(key, id) } }
AppendIds(query, key, field) ==
    IF field.some THEN AppendEach(query, key, field.val) ELSE query

\* bbox.iter().map(|v| v.to_string()).collect::<Vec<String>>().join(",")
RECURSIVE JoinComma(_)
JoinComma(ns) ==
    IF ns = <<>> THEN <<>>
    ELSE IF Len(ns) = 1 THEN I64String(ns[1])
    ELSE I64String(ns[1]) \o <<",">> \o JoinComma(Tail(ns))

MapSome(field, F(_)) == IF field.some THEN Some(F(field.val)) ELSE None

\* serde_json::to_string(&units) without its quotes (kebab-case names)
UnitString(units) ==
    IF units = "Si" THEN <<"s", "i">> ELSE <<"d", "w", "d">>

\* A bug: two formats sharing one word.
FormatStringLossy(format) ==
    IF format = "Plain" THEN <<"p", "l", "a", "i", "n">>
    ELSE <<"b", "y", "t", "e", "s">>

\* match format { Compressed => "compressed", Bytes => "bytes", Plain => "plain" }
FormatString(format) ==
    CASE format = "Compressed" -> <<"c", "o", "m", "p", "r", "e", "s", "s", "e", "d">>
      [] format = "Bytes" -> <<"b", "y", "t", "e", "s">>
      [] format = "Plain" -> <<"p", "l", "a", "i", "n">>

\* The query pairs of the four to_url, in the order they are appended.
QueryOf(b) ==
    LET lat == AppendSome(<<>>, "lat", b.lat)
        latlon == AppendSome(lat, "lon", b.lon)
        date == AppendSome(<<>>, "date", MapSome(b.date, DateString))
        dates == AppendSome(date, "last_date", MapSome(b.last_date, DateString))
        stations(q) ==
            LET q1 == AppendSome(q, "max_dist", b.max_dist)
                q2 == AppendIds(q1, "dwd_station_id", b.dwd_station_id)
                q3 == AppendIds(q2, "wmo_station_id", b.wmo_station_id)
                q4 == AppendIds(q3, "source_id", b.source_id)
                q5 == AppendSome(q4, "tz", b.tz)
            IN  AppendSome(q5, "units", MapSome(b.units, UnitString))
    IN  CASE b.kind = "current_weather" -> stations(latlon)
          [] b.kind = "weather" ->
                stations(AppendSome(AppendSome(dates, "lat", b.lat), "lon", b.lon))
          [] b.kind = "radar" ->
                LET q3 == AppendSome(latlon, "bbox", MapSome(b.bbox, JoinComma))
                    q4 == AppendSome(q3, "distance", MapSome(b.distance, Digits))
                    q5 == AppendSome(q4, "date", MapSome(b.date, DateString))
                    q6 == AppendSome(q5, "last_date", MapSome(b.last_date, DateString))
                    q7 == AppendSome(q6, "format",
                                     MapSome(b.compression_format, FormatString))
                IN  AppendSome(q7, "tz", b.tz)
          [] b.kind = "alerts" ->
                AppendSome(AppendSome(latlon, "warn_cell_id", b.warn_cell_id),
                           "tz", b.tz)

\* ToBrightSkyClientUrl::to_url of the builder's kind: the endpoint's name is
\* its kind.
ToUrl(b, host) ==
    IF ~UrlParse(host).ok THEN UrlParse(host)
    ELSE BOk([Join(UrlParse(host).val, b.kind) EXCEPT !.query = QueryOf(b)])

\* ------------------------------------------------ radar response and get
\* A response body is [form |-> "garbage"] (no JSON document) or
\* [form |-> "object", radar |-> None or Some(records)]; a record is
\* [fields_ok, precipitation_5]: whether its timestamp and source are there
\* as strings, and the JSON value at its precipitation_5 key.

Garbage == [form |-> "garbage", radar |-> None]
Document(radar) == [form |-> "object", radar |-> radar]

SerdeOk(v) == [called |-> TRUE, ok |-> TRUE, val |-> v]
SerdeError(msg) == [called |-> TRUE, ok |-> FALSE, error |-> "SerdeError", arg |-> msg]

\* Radar's derived Deserialize: every field must deserialize.
DeserializeRadar(record) ==
    IF ~record.fields_ok THEN SerdeError("missing field")
    ELSE LET decoded == DeserializeValue(record.precipitation_5).result
         IN  IF decoded.ok THEN SerdeOk([precipitation_5 |-> decoded])
             ELSE SerdeError(decoded.msg)

\* A bug: a Vec<Radar> that leaves out the records that fail.
DeserializeRecordsSkipping(records) ==
    LET kept == SelectSeq(records, LAMBDA r : DeserializeRadar(r).ok)
    IN  SerdeOk([i \in DOMAIN kept |-> DeserializeRadar(kept[i]).val])

\* Vec<Radar>'s Deserialize: the records in order, the first failure ends it.
DeserializeRecords(records) ==
    LET failed == {i \in DOMAIN records : ~DeserializeRadar(records[i]).ok}
    IN  IF failed # {}
        THEN DeserializeRadar(records[CHOOSE i \in failed : \A j \in failed : i <= j])
        ELSE SerdeOk([i \in DOMAIN records |-> DeserializeRadar(records[i]).val])

\* serde_json::from_slice::<RadarResponse>(&response.body)
FromSlice(body) ==
    IF body.form = "garbage" THEN SerdeError("expected value")
    ELSE IF ~body.radar.some THEN SerdeError("missing field")
    ELSE LET radar == DeserializeRecords(body.radar.val)
         IN  IF radar.ok THEN SerdeOk([radar |-> radar.val]) ELSE radar

\* A bug: a success range that takes in the redirects.
IsSuccessWide(status) == 200 <= status /\ status < 400

\* HttpResponse::is_success
IsSuccess(status) == 200 <= status /\ status < 300

\* A bug: every error kept under its own name.
FromHttpClientErrorByName(err) ==
    BErr("HttpError", [kind |-> err.kind, code |-> err.code])

\* From<HttpClientError> for BrightSkyError
FromHttpClientError(err) ==
    CASE err.kind = "Timeout" -> BErr("HttpError", [kind |-> "Timeout", code |-> 0])
      [] err.kind = "Connection" -> BErr("HttpError", [kind |-> "Connection", code |-> 0])
      [] err.kind = "Tls" -> BErr("HttpError", [kind |-> "Tls", code |-> 0])
      [] err.kind = "Body" -> BErr("HttpError", [kind |-> "Body", code |-> 0])
      [] err.kind = "InvalidUrl" -> BErr("HttpError", [kind |-> "InvalidUrl", code |-> 0])
      [] err.kind = "Status" -> BErr("HttpError", [kind |-> "Status", code |-> err.code])
      [] err.kind = "Request" ->
            IF err.request = "Reqwest"
            THEN BErr("HttpError", [kind |-> "Reqwest", code |-> 0])
            ELSE BErr("HttpError", [kind |-> "Connection", code |-> 0])
      [] err.kind = "Other" -> BErr("HttpError", [kind |-> "Connection", code |-> 0])

\* The steps of get up to its await: to_url, and the request if to_url
\* gave a URL.
StepsToAwait(b, host) ==
    IF ToUrl(b, host).ok THEN <<"to_url", "request">> ELSE <<"to_url">>

\* A bug: the request sent again after a transport error.
StepsAfterAwaitRetrying(r) ==
    IF ~r.ok THEN <<"request">>
    ELSE IF ~IsSuccess(r.status) THEN <<"status">>
    ELSE <<"status", "deserialize">>

\* The steps of get after its await: none after a transport error (`?`),
\* the status check, and the body's deserialization if the status is 2xx.
StepsAfterAwait(r) ==
    IF ~r.ok THEN <<>>
    ELSE IF ~IsSuccess(r.status) THEN <<"status">>
    ELSE <<"status", "deserialize">>

\* What get returns once the HTTP client has answered.
Finish(r) ==
    IF ~r.ok THEN FromHttpClientError(r.err)
    ELSE IF ~IsSuccess(r.status)
    THEN BErr("HttpError", [kind |-> "Status", code |-> r.status])
    ELSE FromSlice(r.body)

\* ------------------------------------------------------------ WeatherIcon

\* The arms of the match in WeatherIcon's Deserialize, in their order: the
\* kebab-case tag and the variant it gives.
IconTags ==
    << [tag |-> <<"c", "l", "e", "a", "r", "-", "d", "a", "y">>,
        variant |-> "ClearDay"],
       [tag |-> <<"c", "l", "e", "a", "r", "-", "n", "i", "g", "h", "t">>,
        variant |-> "ClearNight"],
       [tag |-> <<"p", "a", "r", "t", "l", "y", "-", "c", "l", "o", "u",
                 "d", "y", "-", "d", "a", "y">>,
        variant |-> "PartlyCloudyDay"],
       [tag |-> <<"p", "a", "r", "t", "l", "y", "-", "c", "l", "o", "u",
                 "d", "y", "-", "n", "i", "g", "h", "t">>,
        variant |-> "PartlyCloudyNight"],
       [tag |-> <<"c", "l", "o", "u", "d", "y">>,
        variant |-> "Cloudy"],
       [tag |-> <<"f", "o", "g">>,
        variant |-> "Fog"],
       [tag |-> <<"w", "i", "n", "d">>,
        variant |-> "Wind"],
       [tag |-> <<"r", "a", "i", "n">>,
        variant |-> "Rain"],
       [tag |-> <<"s", "l", "e", "e", "t">>,
        variant |-> "Sleet"],
       [tag |-> <<"s", "n", "o", "w">>,
        variant |-> "Snow"],
       [tag |-> <<"h", "a", "i", "l">>,
        variant |-> "Hail"],
       [tag |-> <<"t", "h", "u", "n", "d", "e", "r", "s", "t", "o", "r",
                 "m">>,
        variant |-> "Thunderstorm"] >>

IconOk(variant) == [ok |-> TRUE, variant |-> variant]
IconErr(msg) == [ok |-> FALSE, msg |-> msg]

\* String::deserialize(deserializer)?: a JSON string is taken, any other
\* JSON value is an error of serde_json ("invalid type: ..., expected a string").
StringDeserialize(v) ==
    IF v.type = "String" THEN [ok |-> TRUE, val |-> v.s]
    ELSE [ok |-> FALSE, msg |-> "invalid type"]

\* match value.as_str() { "clear-day" => ClearDay, ..., _ => Unknown }
MatchIcon(s) ==
    LET hits == {i \in DOMAIN IconTags : IconTags[i].tag = s}
    IN  IF hits = {} THEN "Unknown"
        ELSE IconTags[CHOOSE i \in hits : TRUE].variant

\* <WeatherIcon as Deserialize>::deserialize
DeserializeIcon(v) ==
    IF ~StringDeserialize(v).ok THEN IconErr(StringDeserialize(v).msg)
    ELSE IconOk(MatchIcon(StringDeserialize(v).val))

\* ------------------------------------------------------- decodes side by side

\* A bug: one buffer for all decodes, holding what the latest base64 step of
\* any of them wrote.
ScratchShared(ts, t) ==
    LET writers == {u \in DOMAIN ts : ts[u].wrote > 0}
    IN  ts[CHOOSE u \in writers : \A w \in writers : ts[w].wrote <= ts[u].wrote].buf

\* The buffer the zlib attempt of decode t reads: `decoded`, a local of its
\* own call.
Scratch(ts, t) == ts[t].buf

\* One step of decode t among the decodes ts: the match on the value with the
\* array branch or the base64 decoding, or the zlib attempt with its fallback.
StepTask(ts, t) ==
    LET task == ts[t]
        v == task.value
        clock == Len(SelectSeq(ts, LAMBDA u : u.wrote > 0)) + 1
    IN  IF task.at = "match" THEN
            IF v.type = "Array"
            THEN [task EXCEPT !.at = "done", !.result = DecodeRows(v.items)]
            ELSE IF v.type = "String"
            THEN IF ~B64Decode(v.s).ok
                 THEN [task EXCEPT !.at = "done",
                                   !.result = Err("Base64 decode error")]
                 ELSE [task EXCEPT !.at = "inflate",
                                   !.buf = B64Decode(v.s).bytes,
                                   !.wrote = clock]
            ELSE [task EXCEPT !.at = "done",
                              !.result = Err("Expected string or array")]
        ELSE
            LET decoded == Scratch(ts, t)
                decompressed == Inflate(decoded)
            IN  [task EXCEPT
                    !.at = "done",
                    !.result = IF decompressed.ok
                               THEN OkCompressed(ChunksToU16(decompressed.out))
                               ELSE OkBytes(ChunksToU16(decoded))]

\* ------------------------------------------- inputs of the other parts

\* The values a run of decodes draws from: one of every kind of outcome.
RepeatValues ==
    { JArray(<<JArray(<<JPosInt(7), JPosInt(65535)>>)>>),
      JArray(<<JPosInt(3)>>),
      JString(B64Encode(ZlibStored(ToLeBytes(<<376>>), 1))),
      JString(B64Encode(ToLeBytes(<<7>>))),
      JString(<<"!">>),
      JArray(<<>>),
      JNull }

\* The coordinates with_lat_lon is given: in range, on the bounds, beyond them.
LatValues ==
    { Finite(-910), Finite(-900), Finite(525), Finite(900), Finite(905),
      NaN, Infinity }

LonValues == { Finite(-1800), Finite(134), Finite(1800), Finite(1810) }

\* The pairs with_lat_lon is given: every latitude beside a longitude in
\* range, every longitude beside a latitude in range, and the corners where
\* both are at or past their bounds.
LatLonValues ==
    {<<lat, Finite(134)>> : lat \in LatValues}
    \cup {<<Finite(525), lon>> : lon \in LonValues}
    \cup {<<Finite(-900), Finite(-1800)>>, <<Finite(900), Finite(1800)>>,
          <<Finite(-910), Finite(1810)>>, <<Finite(905), Finite(1810)>>}

\* The distances with_max_dist is given (u32).
MaxDistValues == {0, 50000, 500000, 500001, 2000000000}

\* The dates with_date and with_last_date are given.
DateValues == { [y |-> 2023, m |-> 8, d |-> 7] }

\* The lists with_dwd_station_id and with_wmo_station_id are given: two
\* stations in order of priority, and no station at all.
StationIds ==
    { <<<<"0", "1", "7", "6", "6">>, <<"0", "0", "4", "2", "0">>>>, <<>> }

FormatValues == {"Compressed", "Bytes", "Plain"}
WarnCellIds == {803159016, -1}

\* BRIGHT_SKY_API
DefaultHost ==
    [scheme |-> "https", authority |-> "api.brightsky.dev",
     segments |-> <<>>, dir |-> FALSE]

\* The hosts to_url is given: the API, a mock server under a path, and a
\* host name without a scheme.
Hosts ==
    { DefaultHost,
      [scheme |-> "http", authority |-> "localhost:8080",
       segments |-> <<"api">>, dir |-> TRUE],
      [scheme |-> "", authority |-> "",
       segments |-> <<"api.brightsky.dev">>, dir |-> FALSE] }

\* The builders get is called with: built ones and ones build() would refuse.
ClientBuilders ==
    { [NewBuilder("radar") EXCEPT !.compression_format = Some("Plain")],
      [NewBuilder("radar") EXCEPT !.lat = Some(CoordString(Finite(910))),
                                  !.lon = Some(CoordString(Finite(134)))],
      NewBuilder("weather") }

\* The records of a radar response.
RadarRecords ==
    {[fields_ok |-> TRUE, precipitation_5 |-> v] : v \in RepeatValues}
    \cup {[fields_ok |-> FALSE, precipitation_5 |-> JArray(<<>>)]}

Bodies ==
    {Garbage, Document(None)}
    \cup {Document(Some(records)) : records \in SeqsUpTo(RadarRecords, MaxRecords)}

StatusCodes == {0, 199, 200, 204, 299, 300, 404, 500, 65535}

\* The errors of HttpClientError: a Request error holds the reqwest error or
\* Custom, a Status error its code and maybe a message.
HttpClientErrors ==
    {[kind |-> k, code |-> 0, request |-> "None", message |-> None] :
        k \in {"Body", "Connection", "Tls", "Timeout", "InvalidUrl", "Other"}}
    \cup {[kind |-> "Request", code |-> 0, request |-> r, message |-> None] :
            r \in {"Reqwest", "Custom"}}
    \cup {[kind |-> "Status", code |-> 503, request |-> "None", message |-> m] :
            m \in {None, Some(<<"b", "u", "s", "y">>)}}

NoHttpError == [kind |-> "None", code |-> 0, request |-> "None", message |-> None]

HttpOk(status, body) ==
    [ok |-> TRUE, status |-> status, body |-> body, err |-> NoHttpError]
HttpErr(err) == [ok |-> FALSE, status |-> 0, body |-> Garbage, err |-> err]

NoRequest == [builder |-> NoBuilder, host |-> DefaultHost]
NoReply == [ok |-> FALSE, status |-> 0, body |-> Garbage, err |-> NoHttpError]

\* The JSON values a WeatherIcon is deserialized from: the twelve tags,
\* "unknown", every string of up to MaxTagLen of a few characters ("rain"
\* and its misspellings among them), and a value of every other JSON type.
IconChars == {"r", "a", "i", "n", "R", "-"}
IconValues ==
    {JString(IconTags[i].tag) : i \in DOMAIN IconTags}
    \cup {JString(<<"u", "n", "k", "n", "o", "w", "n">>)}
    \cup {JString(s) : s \in SeqsUpTo(IconChars, MaxTagLen)}
    \cup {JNull, JBool(TRUE), JPosInt(3), JArray(<<>>), JObject}

\* ----------------------------------------------------------------- actions

Init ==
    /\ pc = "idle"
    /\ value = JNull
    /\ origin = NoOrigin
    /\ result = Pending
    /\ steps = <<>>
    /\ history = <<>>
    /\ builder = NoBuilder
    /\ built = NotCalled
    /\ url = NotCalled
    /\ given = NoneGiven
    /\ cpc = "idle"
    /\ request = NoRequest
    /\ reply = NoReply
    /\ outcome = NotCalled
    /\ trail = <<>>
    /\ icon = NoIcon
    /\ tasks = <<>>

Receive(v, o) ==
    /\ pc' = "ready"
    /\ value' = v
    /\ origin' = o
    /\ UNCHANGED <<result, steps, history, icon, tasks, builderVars, clientVars>>

\* format=plain: a nested array (well-formed or not).
ReceivePlain ==
    /\ pc = "idle"
    /\ \E shape \in GridShapes :
        \E cells \in [1..CellsOf(shape) -> RowElements],
           others \in [1..NotRowsOf(shape) -> NotRows] :
            Receive(JArray(BuildGrid(shape, cells, others)),
                    [how |-> "plain", samples |-> <<>>, payload |-> <<>>])

\* format=compressed: samples, little-endian, zlib-deflated, base64-encoded.
ReceiveCompressed ==
    /\ pc = "idle"
    /\ \E samples \in SeqsUpTo(SampleValues, MaxSamples), flg \in ZlibFlags :
        Receive(JString(B64Encode(ZlibStored(ToLeBytes(samples), flg))),
                [how |-> "compressed", samples |-> samples,
                 payload |-> ToLeBytes(samples)])

\* A deflated payload of any length, odd ones included.
ReceiveCompressedPayload ==
    /\ pc = "idle"
    /\ \E payload \in SeqsUpTo(PayloadBytes, MaxPayload), flg \in ZlibFlags :
        Receive(JString(B64Encode(ZlibStored(payload, flg))),
                [how |-> "compressed-payload", samples |-> <<>>, payload |-> payload])

\* format=bytes: samples, little-endian, base64-encoded.
ReceiveBytes ==
    /\ pc = "idle"
    /\ \E samples \in SeqsUpTo(SampleValues, MaxSamples) :
        Receive(JString(B64Encode(ToLeBytes(samples))),
                [how |-> "bytes", samples |-> samples, payload |-> ToLeBytes(samples)])

\* format=bytes, with samples whose bytes begin like a zlib stream.
ReceiveZlibLike ==
    /\ pc = "idle"
    /\ \E tail \in SeqsUpTo(ZlibLikeSamples, MaxRawTail) :
        LET samples == <<376>> \o tail
        IN  Receive(JString(B64Encode(ToLeBytes(samples))),
                    [how |-> "bytes", samples |-> samples,
                     payload |-> ToLeBytes(samples)])

\* A raw payload of any length, odd ones included.
ReceiveBytesPayload ==
    /\ pc = "idle"
    /\ \E payload \in SeqsUpTo(PayloadBytes, MaxPayload) :
        Receive(JString(B64Encode(payload)),
                [how |-> "bytes-payload", samples |-> <<>>, payload |-> payload])

\* Any string at all.
ReceiveString ==
    /\ pc = "idle"
    /\ \E s \in SeqsUpTo(StringChars, MaxStrLen) :
        Receive(JString(s), [how |-> "string", samples |-> <<>>, payload |-> <<>>])

\* A value that is neither an array nor a string.
ReceiveOther ==
    /\ pc = "idle"
    /\ \E v \in OtherValues :
        Receive(v, [how |-> "other", samples |-> <<>>, payload |-> <<>>])

\* MaybeCompressedPrecipitation::deserialize
Deserialize ==
    /\ pc = "ready"
    /\ pc' = "done"
    /\ LET run == DeserializeValue(value)
       IN  result' = run.result /\ steps' = run.steps
    /\ UNCHANGED <<value, origin, history, icon, tasks, builderVars, clientVars>>

\* The record is dropped; the next one is decoded from scratch.
Drop ==
    /\ pc = "done"
    /\ pc' = "idle"
    /\ value' = JNull
    /\ origin' = NoOrigin
    /\ result' = Pending
    /\ steps' = <<>>
    /\ UNCHANGED <<history, icon, tasks, builderVars, clientVars>>

Next ==
    \/ ReceivePlain
    \/ ReceiveCompressed
    \/ ReceiveCompressedPayload
    \/ ReceiveBytes
    \/ ReceiveZlibLike
    \/ ReceiveBytesPayload
    \/ ReceiveString
    \/ ReceiveOther
    \/ Deserialize
    \/ Drop

Spec == Init /\ [][Next]_vars

\* A run of decodes, one record after the other, each one logged: the value
\* is received, deserialized and dropped (Receive, Deserialize, Drop).
DecodeAgain ==
    /\ Len(history) < MaxDecodes
    /\ \E v \in RepeatValues :
        history' = Append(history,
                          [value |-> v, result |-> DeserializeValue(v).result])
    /\ UNCHANGED <<decoderVars, icon, tasks, builderVars, clientVars>>

\* The log is cleared; the decoder keeps nothing from the run.
ForgetRun ==
    /\ history # <<>>
    /\ history' = <<>>
    /\ UNCHANGED <<decoderVars, icon, tasks, builderVars, clientVars>>

NextRepeat ==
    \/ DecodeAgain
    \/ ForgetRun

SpecRepeat == Init /\ [][NextRepeat]_vars

\* ---------------------------------------------------- query builder actions
\* A builder is made, set up by its setters, and then given to build(), to
\* to_url, or to build() and then to_url.

\* ::new()
New ==
    /\ builder = NoBuilder
    /\ \E kind \in BuilderKinds : builder' = NewBuilder(kind)
    /\ UNCHANGED <<built, url, given, decoderVars, history, icon, tasks, clientVars>>

\* A setter of the builders of these kinds may be called.
Setting(kinds) == builder.kind \in kinds /\ ~built.called /\ ~url.called

\* The setter's assignment, and the argument it was called with; nothing
\* else changes.
Set(b, setter, arg) ==
    /\ builder' = b
    /\ given' = [args |-> [given.args EXCEPT ![setter] = Some(arg)],
                 replaced |-> given.replaced
                                \/ given.args[setter] \notin {None, Some(arg)}]
    /\ UNCHANGED <<built, url, decoderVars, history, icon, tasks, clientVars>>

WithLatLon ==
    /\ Setting(BuilderKinds)
    /\ \E lat_lon \in LatLonValues :
        LET lat == lat_lon[1]
            lon == lat_lon[2]
        IN  Set(SetLatLon(builder, lat, lon), "with_lat_lon", <<lat, lon>>)

WithMaxDist ==
    /\ Setting({"current_weather", "weather"})
    /\ \E max_dist \in MaxDistValues :
        Set([builder EXCEPT !.max_dist = Some(Digits(max_dist))],
            "with_max_dist", max_dist)

WithDate ==
    /\ Setting({"weather", "radar"})
    /\ \E date \in DateValues : Set([builder EXCEPT !.date = Some(date)],
            "with_date", date)

WithLastDate ==
    /\ Setting({"weather", "radar"})
    /\ \E last_date \in DateValues : Set([builder EXCEPT !.last_date = Some(last_date)],
            "with_last_date", last_date)

WithDwdStationId ==
    /\ Setting({"current_weather", "weather"})
    /\ \E ids \in StationIds : Set([builder EXCEPT !.dwd_station_id = Some(ids)],
            "with_dwd_station_id", ids)

WithWmoStationId ==
    /\ Setting({"current_weather", "weather"})
    /\ \E ids \in StationIds \ {<<>>} : Set([builder EXCEPT !.wmo_station_id = Some(ids)],
            "with_wmo_station_id", ids)

WithSourceId ==
    /\ Setting({"current_weather", "weather"})
    /\ \E ids \in {<<1234, 2345>>} :
        Set([builder EXCEPT
                !.source_id = Some([i \in DOMAIN ids |-> I64String(ids[i])])],
            "with_source_id", ids)

WithTz ==
    /\ Setting(BuilderKinds)
    /\ \E tz \in {<<"E", "u", "r", "o", "p", "e", "/", "B", "e", "r", "l", "i", "n">>} :
        Set([builder EXCEPT !.tz = Some(tz)],
            "with_tz", tz)

WithUnits ==
    /\ Setting({"current_weather", "weather"})
    /\ \E units \in {"Si"} : Set([builder EXCEPT !.units = Some(units)],
            "with_units", units)

WithBbox ==
    /\ Setting({"radar"})
    /\ \E bbox \in {<<100, 100, 300, 300>>} : Set([builder EXCEPT !.bbox = Some(bbox)],
            "with_bbox", bbox)

WithDistance ==
    /\ Setting({"radar"})
    /\ \E distance \in {100000} : Set([builder EXCEPT !.distance = Some(distance)],
            "with_distance", distance)

WithCompressionFormat ==
    /\ Setting({"radar"})
    /\ \E format \in FormatValues :
        Set([builder EXCEPT !.compression_format = Some(format)],
            "with_compression_format", format)

WithWarnCellId ==
    /\ Setting({"alerts"})
    /\ \E warn_cell_id \in WarnCellIds :
        Set([builder EXCEPT !.warn_cell_id = Some(I64String(warn_cell_id))],
            "with_warn_cell_id", warn_cell_id)

\* build()
Build ==
    /\ Setting(BuilderKinds)
    /\ built' = BuildResult(builder)
    /\ UNCHANGED <<builder, url, given, decoderVars, history, icon, tasks, clientVars>>

\* to_url(host), on the builder as it is or on the one build() returned
ToUrlCall ==
    /\ builder.kind \in BuilderKinds
    /\ ~url.called
    /\ built.called => built.ok
    /\ \E host \in Hosts : url' = ToUrl(builder, host)
    /\ UNCHANGED <<builder, built, given, decoderVars, history, icon, tasks, clientVars>>

\* The builder was consumed; the next one starts from new().
Discard ==
    /\ built.called \/ url.called
    /\ builder' = NoBuilder
    /\ built' = NotCalled
    /\ url' = NotCalled
    /\ given' = NoneGiven
    /\ UNCHANGED <<decoderVars, history, icon, tasks, clientVars>>

NextBuilder ==
    \/ New
    \/ WithLatLon
    \/ WithMaxDist
    \/ WithDate
    \/ WithLastDate
    \/ WithDwdStationId
    \/ WithWmoStationId
    \/ WithSourceId
    \/ WithTz
    \/ WithUnits
    \/ WithBbox
    \/ WithDistance
    \/ WithCompressionFormat
    \/ WithWarnCellId
    \/ Build
    \/ ToUrlCall
    \/ Discard

SpecBuilder == Init /\ [][NextBuilder]_vars

\* ------------------------------------------------------ BrightSkyClient::get

\* get up to its await: to_url, whose error ends the call, then the request.
GetSend ==
    /\ cpc = "idle"
    /\ \E b \in ClientBuilders, host \in Hosts :
        /\ request' = [builder |-> b, host |-> host]
        /\ IF ToUrl(b, host).ok
           THEN cpc' = "waiting" /\ outcome' = outcome
           ELSE cpc' = "done" /\ outcome' = ToUrl(b, host)
        /\ trail' = StepsToAwait(b, host)
    /\ UNCHANGED <<reply, decoderVars, history, icon, tasks, builderVars>>

\* get from its await on: the HTTP client's answer, the status check, the body.
GetReceive ==
    /\ cpc = "waiting"
    /\ \E r \in {HttpOk(status, body) : status \in StatusCodes, body \in Bodies}
                \cup {HttpErr(err) : err \in HttpClientErrors} :
        /\ reply' = r
        /\ outcome' = Finish(r)
        /\ trail' = trail \o StepsAfterAwait(r)
    /\ cpc' = "done"
    /\ UNCHANGED <<request, decoderVars, history, icon, tasks, builderVars>>

\* The caller has the result; the client is ready for the next call.
GetReturn ==
    /\ cpc = "done"
    /\ cpc' = "idle"
    /\ request' = NoRequest
    /\ reply' = NoReply
    /\ outcome' = NotCalled
    /\ trail' = <<>>
    /\ UNCHANGED <<decoderVars, history, icon, tasks, builderVars>>

NextClient ==
    \/ GetSend
    \/ GetReceive
    \/ GetReturn

SpecClient == Init /\ [][NextClient]_vars

\* ------------------------------------------------------------ WeatherIcon

\* serde_json::from_str::<WeatherIcon>(json)
IconDeserialize ==
    /\ ~icon.called
    /\ \E v \in IconValues :
        icon' = [called |-> TRUE, json |-> v, result |-> DeserializeIcon(v)]
    /\ UNCHANGED <<decoderVars, history, tasks, builderVars, clientVars>>

\* The result was taken; the next value can come.
IconDrop ==
    /\ icon.called
    /\ icon' = NoIcon
    /\ UNCHANGED <<decoderVars, history, tasks, builderVars, clientVars>>

NextIcon ==
    \/ IconDeserialize
    \/ IconDrop

SpecIcon == Init /\ [][NextIcon]_vars

\* ------------------------------------------------------- decodes side by side

\* A decode is called on a value of its own while others may be running.
TaskSpawn ==
    /\ Len(tasks) < MaxTasks
    /\ \E v \in RepeatValues :
        tasks' = Append(tasks, [value |-> v, at |-> "match", buf |-> <<>>,
                                wrote |-> 0, result |-> Pending])
    /\ UNCHANGED <<decoderVars, history, icon, builderVars, clientVars>>

\* The scheduler lets one of the running decodes take its next step.
TaskStep ==
    /\ \E t \in DOMAIN tasks :
        /\ tasks[t].at # "done"
        /\ tasks' = [tasks EXCEPT ![t] = StepTask(tasks, t)]
    /\ UNCHANGED <<decoderVars, history, icon, builderVars, clientVars>>

\* Every decode has returned; the results are taken.
TasksJoin ==
    /\ tasks # <<>>
    /\ \A t \in DOMAIN tasks : tasks[t].at = "done"
    /\ tasks' = <<>>
    /\ UNCHANGED <<decoderVars, history, icon, builderVars, clientVars>>

NextTasks ==
    \/ TaskSpawn
    \/ TaskStep
    \/ TasksJoin

SpecTasks == Init /\ [][NextTasks]_vars

\* Every string the specifications decode stays inside the modelled part of
\* inflate: none holds a Huffman-coded block that could be complete.
InflateInModel == value.type = "String" => InflateModelled(value.s)

\* ------------------------------------------------------------------ claims

IsSample(e) == e.type = "Number" /\ e.kind = "PosInt" /\ e.n \in 0..65535

IsNonNegInt(e) == e.type = "Number" /\ e.kind = "PosInt"

IsRow(e) == e.type = "Array"

Failed(kind) == ~result.ok /\ ErrorKind(result) = kind

\* The bytes the string of value holds, and its inflation.
DecodedBytes == B64Decode(value.s).bytes
Inflated == Inflate(DecodedBytes)

\* C1: a nested array of integers in 0..65535 always decodes to the Plain
\* variant with the input's rows: the same row count, row lengths and value
\* at every position, empty and ragged rows included.
C1_PlainKeepsEveryValue ==
    (pc = "done" /\ value.type = "Array"
        /\ \A i \in 1..Len(value.items) :
            /\ IsRow(value.items[i])
            /\ \A j \in 1..Len(value.items[i].items) : IsSample(value.items[i].items[j]))
    => /\ result.ok
       /\ result.variant = "Plain"
       /\ Len(result.data) = Len(value.items)
       /\ \A i \in 1..Len(value.items) :
            /\ Len(result.data[i]) = Len(value.items[i].items)
            /\ \A j \in 1..Len(value.items[i].items) :
                result.data[i][j] = value.items[i].items[j].n

\* C1's case: two ragged rows, one of them empty, the other holding 65535,
\* decoded.
C1_Witness ==
    /\ pc = "done"
    /\ value = JArray(<<JArray(<<JPosInt(65535), JPosInt(7)>>), JArray(<<>>)>>)
    /\ result = OkPlain(<< <<65535, 7>>, <<>> >>)

\* C2: samples written little-endian, zlib-deflated and base64-encoded decode
\* to the Compressed variant holding exactly those samples.
C2_CompressedRoundTrip ==
    (pc = "done" /\ origin.how = "compressed")
    => result = OkCompressed(origin.samples)

\* C2's case: two samples with different low and high bytes went through the
\* round trip.
C2_Witness ==
    /\ pc = "done"
    /\ origin.how = "compressed"
    /\ origin.samples = <<376, 65280>>
    /\ result.ok /\ result.variant = "Compressed"

\* C3: samples written little-endian and base64-encoded without deflate decode
\* to the Bytes variant holding exactly those samples, never to Compressed;
\* the empty sequence and bytes that begin like a zlib stream included.
C3_BytesRoundTrip ==
    (pc = "done" /\ origin.how = "bytes")
    => result = OkBytes(origin.samples)

\* C4: a string of valid base64 always decodes: to Compressed when inflation
\* succeeds, and otherwise to Bytes made of the base64-decoded bytes; no
\* inflation failure is returned.
C4_InflateFailureFallsBack ==
    (pc = "done" /\ value.type = "String" /\ B64Decode(value.s).ok)
    => /\ result.ok
       /\ Inflated.ok => result = OkCompressed(ChunksToU16(Inflated.out))
       /\ ~Inflated.ok => result = OkBytes(ChunksToU16(DecodedBytes))

\* C4's case: a stream with a good zlib header and a stored block that is cut
\* short: inflation started, produced output and failed, and the result is
\* Bytes of all the decoded bytes.
C4_Witness ==
    /\ pc = "done"
    /\ origin.how = "bytes"
    /\ origin.samples = <<376, 256, 65024, 255, 257, 256>>
    /\ ~Inflated.ok
    /\ result = OkBytes(origin.samples)

\* C5: a string that is not valid base64 fails with InvalidBase64, before any
\* inflation attempt, and gives no grid of any variant.
C5_InvalidBase64IsFatal ==
    (pc = "done" /\ value.type = "String" /\ ~B64Decode(value.s).ok)
    => /\ Failed("InvalidBase64")
       /\ steps = <<"base64">>

\* C5's case: a string of four characters, one of them outside the alphabet.
C5_Witness ==
    /\ pc = "done"
    /\ value = JString(<<"e", "A", "!", "=">>)
    /\ ~result.ok

\* C6: a value that is neither an array nor a string fails with
\* UnexpectedShape.
C6_OtherShapesFail ==
    (pc = "done" /\ value.type \notin {"Array", "String"})
    => Failed("UnexpectedShape")

\* C6's case: null was decoded.
C6_Witness ==
    /\ pc = "done"
    /\ value = JNull
    /\ ~result.ok

\* C7: an array with an outer element that is no array fails with InvalidRow,
\* wherever that element is and whatever the rows before it; no rows are
\* returned.
C7_NonArrayElementFails ==
    (pc = "done" /\ value.type = "Array"
        /\ \E i \in 1..Len(value.items) : ~IsRow(value.items[i]))
    => Failed("InvalidRow")

\* C7's case: a valid row, then a number.
C7_Witness ==
    /\ pc = "done"
    /\ value = JArray(<<JArray(<<JPosInt(7), JPosInt(0)>>), JPosInt(3)>>)
    /\ ~result.ok

\* C8: a nested array with an inner integer above 65535 fails with InvalidRow;
\* the integer is never stored wrapped modulo 2^16.
C8_OverflowFails ==
    (pc = "done" /\ value.type = "Array"
        /\ \E i \in 1..Len(value.items) :
            /\ IsRow(value.items[i])
            /\ \E j \in 1..Len(value.items[i].items) :
                /\ IsNonNegInt(value.items[i].items[j])
                /\ value.items[i].items[j].n > 65535)
    => Failed("InvalidRow")

\* C9: a nested array with an inner element that is no non-negative integer
\* (negative, fractional, a string, a boolean, null, an array, an object)
\* fails with InvalidRow.
C9_NonIntegerElementFails ==
    (pc = "done" /\ value.type = "Array"
        /\ \E i \in 1..Len(value.items) :
            /\ IsRow(value.items[i])
            /\ \E j \in 1..Len(value.items[i].items) :
                ~IsNonNegInt(value.items[i].items[j]))
    => Failed("InvalidRow")

\* C9's case: a valid row, then a row holding a negative integer.
C9_Witness ==
    /\ pc = "done"
    /\ value = JArray(<<JArray(<<JPosInt(7)>>), JArray(<<JNegInt(-1)>>)>>)
    /\ ~result.ok

\* C10: on the string path the samples number floor(n / 2), n being the
\* length of the buffer the decoder settled on (the inflated bytes for
\* Compressed, the base64-decoded bytes for Bytes); a payload of odd length
\* decodes, its last byte dropped.
C10_HalfTheBufferLength ==
    /\ (pc = "done" /\ value.type = "String" /\ result.ok)
       => Len(result.data) =
            Len(IF result.variant = "Compressed" THEN Inflated.out ELSE DecodedBytes) \div 2
    /\ (pc = "done" /\ origin.how = "compressed-payload")
       => /\ result.ok /\ result.variant = "Compressed"
          /\ Len(result.data) = Len(origin.payload) \div 2
    /\ (pc = "done" /\ origin.how = "bytes-payload")
       => /\ result.ok
          /\ result.variant = "Bytes" => Len(result.data) = Len(origin.payload) \div 2

\* C10's case: a deflated payload of three bytes decoded to one sample.
C10_Witness ==
    /\ pc = "done"
    /\ origin.how = "compressed-payload"
    /\ origin.payload = <<120, 1, 255>>
    /\ result = OkCompressed(<<376>>)

Records == reply.body.radar.val
Decodes(record) == DeserializeValue(record.precipitation_5).result.ok

\* The answer came with a 2xx status and a JSON document holding radar records.
RadarAnswer ==
    /\ cpc = "done" /\ reply.ok
    /\ reply.status \in 200..299
    /\ reply.body.form = "object" /\ reply.body.radar.some

\* C12: a decode failure of the precipitation_5 of any one radar record fails
\* the deserialization of the whole response: get returns no RadarResponse,
\* not even one of the records that decoded, but a SerdeError.
C12_OneFailureFailsTheResponse ==
    (RadarAnswer /\ \E i \in DOMAIN Records : ~Decodes(Records[i]))
        => (~outcome.ok /\ outcome.error = "SerdeError")

\* Two complete records, the first of which decodes and the second does not.
C12_Witness ==
    /\ RadarAnswer
    /\ Len(Records) = 2
    /\ Records[1].fields_ok /\ Decodes(Records[1])
    /\ Records[2].fields_ok /\ ~Decodes(Records[2])
    /\ ~outcome.ok /\ outcome.error = "SerdeError"

\* C13: the JSON shape alone fixes the variant: an array gives Plain or an
\* InvalidRow error and never goes through base64 or inflate; a string gives
\* Compressed, Bytes or an InvalidBase64 error, never Plain.
C13_ShapeFixesVariant ==
    pc = "done" =>
        /\ value.type = "Array" =>
            /\ (result.ok /\ result.variant = "Plain") \/ Failed("InvalidRow")
            /\ \A i \in DOMAIN steps : steps[i] \notin {"base64", "inflate"}
        /\ value.type = "String" =>
            \/ result.ok /\ result.variant \in {"Compressed", "Bytes"}
            \/ Failed("InvalidBase64")

\* An array of numbers, which are no rows: InvalidRow, and no binary decoding.
C13_Witness ==
    /\ pc = "done"
    /\ value.type = "Array" /\ Len(value.items) > 0
    /\ \A i \in DOMAIN value.items : IsSample(value.items[i])
    /\ Failed("InvalidRow")
    /\ steps = <<"rows">>

\* The f64 a coordinate string of the builder holds.
Coord(field) == ParseF64(field.val).val
IsNumber(field) == ParseF64(field.val).ok /\ Coord(field).class = "finite"

LatInRange(b) ==
    b.lat.some => IsNumber(b.lat) /\ Coord(b.lat).tenths \in -900..900
LonInRange(b) ==
    b.lon.some => IsNumber(b.lon) /\ Coord(b.lon).tenths \in -1800..1800
DateThere(b) == b.kind = "weather" => b.date.some

\* The distance max_dist holds.
Dist(b) == DigitsValue(b.max_dist.val)

BuildFailed(error) == built.called /\ ~built.ok /\ built.error = error

\* C14: build() of each of the four builders, on a latitude outside
\* [-90, 90], fails with InvalidLatitude carrying that latitude (read for a
\* latitude that is a number, on a builder whose date, if it needs one, is set).
C14_LatitudeOutOfRange ==
    (built.called /\ DateThere(builder) /\ builder.lat.some /\ IsNumber(builder.lat)
     /\ Coord(builder.lat).tenths \notin -900..900)
        => (BuildFailed("InvalidLatitude") /\ built.arg = Coord(builder.lat))

\* C15: build() of the current weather and weather builders fails with
\* InvalidMaxDistance(d) exactly when max_dist was set to a d > 500000 and no
\* earlier check failed; it accepts every d in 0..=500000.
C15_MaxDistance ==
    (built.called /\ builder.kind \in {"current_weather", "weather"}) =>
        LET earlier == DateThere(builder) /\ LatInRange(builder) /\ LonInRange(builder)
        IN  /\ BuildFailed("InvalidMaxDistance")
                <=> (builder.max_dist.some /\ Dist(builder) > 500000 /\ earlier)
            /\ BuildFailed("InvalidMaxDistance") => built.arg = Dist(builder)
            /\ (builder.max_dist.some /\ Dist(builder) \in 0..500000 /\ earlier)
                => built.ok

\* The weather builder, its date and coordinates in order, refused for a
\* distance of 500001.
C15_Witness ==
    /\ builder.kind = "weather" /\ BuildFailed("InvalidMaxDistance")
    /\ builder.lat.some /\ builder.max_dist.some
    /\ built.arg = 500001

\* C16: WeatherQueryBuilder::build() fails with DateNotSet whenever no date
\* was set, whatever else was (coordinates or max_dist out of range, a
\* last_date), and never with DateNotSet once a date was set.
C16_DateNotSet ==
    (built.called /\ builder.kind = "weather") =>
        (BuildFailed("DateNotSet") <=> ~builder.date.some)

\* No date, and a last_date, a latitude and a distance out of range.
C16_Witness ==
    /\ builder.kind = "weather" /\ BuildFailed("DateNotSet")
    /\ builder.last_date.some
    /\ builder.lat.some /\ ~LatInRange(builder)
    /\ builder.max_dist.some /\ Dist(builder) > 500000

\* C17: build() accepts every coordinate pair with latitude in [-90, 90] and
\* longitude in [-180, 180], the bounds included, when no other parameter is
\* invalid.
C17_CoordinatesInRange ==
    (/\ built.called
     /\ builder.lat.some /\ LatInRange(builder)
     /\ builder.lon.some /\ LonInRange(builder)
     /\ DateThere(builder)
     /\ builder.max_dist.some => Dist(builder) <= 500000)
        => built.ok

\* (90, 180) accepted.
C17_Witness ==
    /\ built.called /\ built.ok
    /\ builder.kind = "current_weather"
    /\ builder.lat.some /\ Coord(builder.lat) = Finite(900)
    /\ builder.lon.some /\ Coord(builder.lon) = Finite(1800)

HasLocation(b) ==
    \/ b.lat.some /\ b.lon.some
    \/ b.dwd_station_id.some
    \/ b.wmo_station_id.some
    \/ b.source_id.some

\* C18: a current weather or weather builder that build() returns Ok for has
\* a location: lat and lon, or one of dwd_station_id, wmo_station_id and
\* source_id.
C18_BuiltHasLocation ==
    (built.called /\ built.ok /\ builder.kind \in {"current_weather", "weather"})
        => HasLocation(builder)

\* C19: to_url returns an error and no URL for a builder with a missing
\* required parameter or an invalid value, build() called on it or not.
C19_ToUrlValidates ==
    (url.called /\ (~DateThere(builder) \/ ~LatInRange(builder)))
        => ~url.ok

\* The body deserializes as a RadarResponse.
BodyDeserializes(body) ==
    /\ body.form = "object" /\ body.radar.some
    /\ \A i \in DOMAIN body.radar.val :
        body.radar.val[i].fields_ok /\ Decodes(body.radar.val[i])

\* C20: for an HTTP response, get returns HttpError(Status { code }) with the
\* response's status whenever it is outside 200..=299, valid body or not; it
\* returns a value only for a 2xx whose body deserializes, and SerdeError for
\* a 2xx whose body does not.
C20_StatusBeforeBody ==
    (cpc = "done" /\ reply.ok) =>
        /\ reply.status \notin 200..299 =>
            /\ ~outcome.ok /\ outcome.error = "HttpError"
            /\ outcome.arg = [kind |-> "Status", code |-> reply.status]
        /\ outcome.ok => reply.status \in 200..299 /\ BodyDeserializes(reply.body)
        /\ (reply.status \in 200..299 /\ BodyDeserializes(reply.body)) => outcome.ok
        /\ (reply.status \in 200..299 /\ ~BodyDeserializes(reply.body))
            => (~outcome.ok /\ outcome.error = "SerdeError")

\* A 404 whose body is a valid radar response with a record.
C20_Witness ==
    /\ cpc = "done" /\ reply.ok
    /\ reply.status = 404
    /\ BodyDeserializes(reply.body) /\ Len(reply.body.radar.val) > 0
    /\ ~outcome.ok /\ outcome.error = "HttpError"
    /\ outcome.arg = [kind |-> "Status", code |-> 404]

\* The values of the pairs of a query with this key, in their order.
PairsOf(query, key) ==
    LET pairs == SelectSeq(query, LAMBDA p : p[1] = key)
    IN  [i \in DOMAIN pairs |-> pairs[i][2]]

\* The parameters of a kind of builder that hold one value, and those that
\* hold a list.
ScalarKeys(kind) ==
    CASE kind = "current_weather" -> {"lat", "lon", "max_dist", "tz", "units"}
      [] kind = "weather" ->
            {"date", "last_date", "lat", "lon", "max_dist", "tz", "units"}
      [] kind = "radar" ->
            {"lat", "lon", "bbox", "distance", "date", "last_date", "format", "tz"}
      [] kind = "alerts" -> {"lat", "lon", "warn_cell_id", "tz"}

ListKeys(kind) ==
    IF kind \in {"current_weather", "weather"}
    THEN {"dwd_station_id", "wmo_station_id", "source_id"}
    ELSE {}

\* The builder field a query key stands for.
FieldOf(b, key) ==
    CASE key = "lat" -> b.lat
      [] key = "lon" -> b.lon
      [] key = "max_dist" -> b.max_dist
      [] key = "date" -> b.date
      [] key = "last_date" -> b.last_date
      [] key = "dwd_station_id" -> b.dwd_station_id
      [] key = "wmo_station_id" -> b.wmo_station_id
      [] key = "source_id" -> b.source_id
      [] key = "tz" -> b.tz
      [] key = "units" -> b.units
      [] key = "bbox" -> b.bbox
      [] key = "distance" -> b.distance
      [] key = "format" -> b.compression_format
      [] key = "warn_cell_id" -> b.warn_cell_id

\* to_url made a URL: its path ends with the endpoint of the builder's kind
\* and its query holds keys of that kind only.
UrlMade ==
    /\ url.called /\ url.ok
    /\ url.val.segments # <<>>
    /\ url.val.segments[Len(url.val.segments)] = builder.kind
    /\ \A i \in DOMAIN url.val.query :
        url.val.query[i][1] \in ScalarKeys(builder.kind) \cup ListKeys(builder.kind)

\* C21 as stated: to_url emits a pair for a parameter exactly when the
\* builder's field is set, on the path of the builder's endpoint.
C21_PairExactlyWhenSet ==
    (url.called /\ url.ok) =>
        /\ UrlMade
        /\ \A key \in ScalarKeys(builder.kind) \cup ListKeys(builder.kind) :
            PairsOf(url.val.query, key) # <<>> <=> FieldOf(builder, key).some

\* C21, amended: a parameter holding one value has exactly one pair when its
\* field is set and none otherwise; a list parameter has one pair for every
\* element of its list, with the same key and in the list's order, so none
\* for a list that is empty or not set.
C21_PairsFollowFields ==
    (url.called /\ url.ok) =>
        /\ UrlMade
        /\ \A key \in ScalarKeys(builder.kind) :
            Len(PairsOf(url.val.query, key))
                = (IF FieldOf(builder, key).some THEN 1 ELSE 0)
        /\ \A key \in ListKeys(builder.kind) :
            PairsOf(url.val.query, key)
                = (IF FieldOf(builder, key).some THEN FieldOf(builder, key).val
                   ELSE <<>>)

\* Two stations and two sources, each its own pair, in order, on /weather.
C21_Witness ==
    /\ UrlMade
    /\ builder.kind = "weather"
    /\ builder.date.some /\ ~builder.last_date.some
    /\ Len(PairsOf(url.val.query, "dwd_station_id")) = 2
    /\ PairsOf(url.val.query, "dwd_station_id")[1] = <<"0", "1", "7", "6", "6">>
    /\ PairsOf(url.val.query, "source_id") = <<<<"1", "2", "3", "4">>, <<"2", "3", "4", "5">>>>

\* C22: the radar to_url writes the compression format as format=compressed,
\* format=bytes or format=plain, each format its own word, and writes no
\* format pair when no format is set.
C22_FormatParameter ==
    (url.called /\ url.ok /\ builder.kind = "radar") =>
        PairsOf(url.val.query, "format") =
            (CASE ~builder.compression_format.some -> <<>>
               [] builder.compression_format = Some("Compressed") ->
                    << <<"c", "o", "m", "p", "r", "e", "s", "s", "e", "d">> >>
               [] builder.compression_format = Some("Bytes") ->
                    << <<"b", "y", "t", "e", "s">> >>
               [] builder.compression_format = Some("Plain") ->
                    << <<"p", "l", "a", "i", "n">> >>)

C22_Witness ==
    /\ url.called /\ url.ok /\ builder.kind = "radar"
    /\ builder.compression_format = Some("Compressed")
    /\ builder.lat.some
    /\ Len(PairsOf(url.val.query, "format")) = 1

FirstFailing(b) ==
    CASE ~DateThere(b) -> "date"
      [] DateThere(b) /\ ~LatInRange(b) -> "lat"
      [] DateThere(b) /\ LatInRange(b) /\ ~LonInRange(b) -> "lon"
      [] DateThere(b) /\ LatInRange(b) /\ LonInRange(b)
         /\ b.max_dist.some /\ Dist(b) > 500000 -> "max_dist"
      [] OTHER -> "none"

\* C28: build() checks the date (weather only), then the latitude, then the
\* longitude, then max_dist or warn_cell_id, and returns the first failure
\* only; with both coordinates out of range the error carries the latitude.
C28_FirstFailureOnly ==
    built.called =>
        CASE FirstFailing(builder) = "date" -> BuildFailed("DateNotSet")
          [] FirstFailing(builder) = "lat" ->
                /\ ~built.ok
                /\ built.error \in {"InvalidLatitude", "InvalidLongitude", "ParseFloatError"}
                /\ IsNumber(builder.lat) => built.arg = Coord(builder.lat)
          [] FirstFailing(builder) = "lon" ->
                /\ ~built.ok
                /\ built.error \in {"InvalidLongitude", "ParseFloatError"}
                /\ IsNumber(builder.lon) => built.arg = Coord(builder.lon)
          [] FirstFailing(builder) = "max_dist" ->
                BuildFailed("InvalidMaxDistance") /\ built.arg = Dist(builder)
          [] FirstFailing(builder) = "none" -> built.ok

\* The weather builder with a date, both coordinates and the distance out of
\* range: the latitude is what the error carries.
C28_Witness ==
    /\ builder.kind = "weather" /\ builder.date.some
    /\ ~LatInRange(builder) /\ ~LonInRange(builder)
    /\ builder.max_dist.some /\ Dist(builder) > 500000
    /\ built.called /\ ~built.ok
    /\ built.arg = Finite(-910)

\* C26: on the string path, sample i is bytes[2i] + 256 * bytes[2i + 1] of
\* the buffer the decoder settled on (counting from 0), for every i below
\* floor(n / 2): the samples stand in the buffer's order.
C26_SamplesLittleEndianInOrder ==
    (pc = "done" /\ value.type = "String" /\ result.ok) =>
        LET bytes == IF result.variant = "Compressed" THEN Inflated.out
                     ELSE DecodedBytes
        IN  \A i \in 0..((Len(bytes) \div 2) - 1) :
                /\ i + 1 \in DOMAIN result.data
                /\ result.data[i + 1] = bytes[2 * i + 1] + 256 * bytes[2 * i + 2]

\* Two different samples, the first above 255, read from base64 bytes.
C26_Witness ==
    /\ pc = "done" /\ value.type = "String"
    /\ result.ok /\ result.variant = "Bytes"
    /\ Len(result.data) = 2
    /\ result.data[1] > 255 /\ result.data[1] % 256 # 0
    /\ result.data[1] # result.data[2]

\* The kinds of HttpClientError that keep their name as an HttpErrorKind.
SameNamed == {"Timeout", "Connection", "Tls", "Body", "InvalidUrl"}

\* C29: the conversion of an HttpClientError is total and always gives
\* HttpError: Timeout, Connection, Tls, Body and InvalidUrl keep their name,
\* Status keeps its code and loses its message, Other and a Request error
\* that is not reqwest's become Connection.
C29_HttpClientErrorBecomesHttpError ==
    (cpc = "done" /\ reply.err # NoHttpError) =>
        /\ ~outcome.ok /\ outcome.error = "HttpError"
        /\ reply.err.kind \in SameNamed
            => outcome.arg = [kind |-> reply.err.kind, code |-> 0]
        /\ reply.err.kind = "Status"
            => outcome.arg = [kind |-> "Status", code |-> reply.err.code]
        /\ (\/ reply.err.kind = "Other"
            \/ reply.err.kind = "Request" /\ reply.err.request # "Reqwest")
            => outcome.arg = [kind |-> "Connection", code |-> 0]

\* A Request error of a custom client came back as Connection.
C29_Witness ==
    /\ cpc = "done"
    /\ reply.err.kind = "Request" /\ reply.err.request = "Custom"
    /\ ~outcome.ok /\ outcome.arg.kind = "Connection"

\* Whether a setter was called on the builder, and the argument of its last call.
Was(setter) == given.args[setter].some
Arg(setter) == given.args[setter].val

\* C27: after any sequence of setter calls every field holds the value of
\* the last call of its setter, or None if that setter was never called: a
\* setter changes its own field only (with_lat_lon exactly lat and lon), and a
\* successful build() returns the builder with every field as it was.
C27_FieldsHoldLastGiven ==
    builder.kind \in BuilderKinds =>
        /\ builder.lat = (IF Was("with_lat_lon")
                          THEN Some(CoordString(Arg("with_lat_lon")[1])) ELSE None)
        /\ builder.lon = (IF Was("with_lat_lon")
                          THEN Some(CoordString(Arg("with_lat_lon")[2])) ELSE None)
        /\ builder.max_dist = (IF Was("with_max_dist")
                               THEN Some(Digits(Arg("with_max_dist"))) ELSE None)
        /\ builder.date = given.args["with_date"]
        /\ builder.last_date = given.args["with_last_date"]
        /\ builder.dwd_station_id = given.args["with_dwd_station_id"]
        /\ builder.wmo_station_id = given.args["with_wmo_station_id"]
        /\ builder.source_id
            = (IF Was("with_source_id")
               THEN Some([i \in DOMAIN Arg("with_source_id") |->
                            I64String(Arg("with_source_id")[i])])
               ELSE None)
        /\ builder.tz = given.args["with_tz"]
        /\ builder.units = given.args["with_units"]
        /\ builder.bbox = given.args["with_bbox"]
        /\ builder.distance = given.args["with_distance"]
        /\ builder.compression_format = given.args["with_compression_format"]
        /\ builder.warn_cell_id
            = (IF Was("with_warn_cell_id")
               THEN Some(I64String(Arg("with_warn_cell_id"))) ELSE None)
        /\ (built.called /\ built.ok) => built.val = builder

\* A weather builder whose setters were called more than once with
\* different arguments, a time zone set before the coordinates, built.
C27_Witness ==
    /\ builder.kind = "weather" /\ built.called /\ built.ok
    /\ given.replaced
    /\ Was("with_date") /\ Was("with_tz") /\ ~Was("with_units")
    /\ Was("with_lat_lon") /\ Was("with_max_dist")
    /\ Arg("with_lat_lon") = <<Finite(525), Finite(134)>>
    /\ Arg("with_max_dist") = 50000
    /\ built.val.max_dist = Some(<<"5", "0", "0", "0", "0">>)

\* The steps of a whole get call, in order.
AllSteps == <<"to_url", "request", "status", "deserialize">>

\* C30: get builds the URL, sends one GET, checks the status and
\* deserializes the body, strictly in this order, and stops at the first
\* step that fails: no request when the URL cannot be built, no
\* deserialization after a transport error or a status outside 2xx, and never
\* more than one request in a call.
C30_StepsInOrderStopAtFailure ==
    /\ Len(trail) <= Len(AllSteps)
    /\ trail = SubSeq(AllSteps, 1, Len(trail))
    /\ cpc = "waiting" => trail = <<"to_url", "request">>
    /\ cpc = "done" =>
        /\ trail # <<>>
        /\ ~ToUrl(request.builder, request.host).ok
            => (trail = <<"to_url">> /\ outcome.error = "UrlParseError")
        /\ (ToUrl(request.builder, request.host).ok /\ ~reply.ok)
            => (trail = <<"to_url", "request">> /\ outcome.error = "HttpError")
        /\ (reply.ok /\ ~(reply.status \in 200..299))
            => (trail = <<"to_url", "request", "status">>
                /\ outcome.arg = [kind |-> "Status", code |-> reply.status])
        /\ (reply.ok /\ reply.status \in 200..299) => trail = AllSteps
        /\ outcome.ok => trail = AllSteps

\* A timeout: the call ended after its one request, the body untouched.
C30_Witness ==
    /\ cpc = "done"
    /\ reply.err.kind = "Timeout"
    /\ trail = <<"to_url", "request">>
    /\ ~outcome.ok /\ outcome.arg.kind = "Timeout"

\* The strings the match of WeatherIcon has an arm for.
RecognisedTags == {IconTags[i].tag : i \in DOMAIN IconTags}

\* C23: a WeatherIcon deserialized from JSON null or from a string that is
\* no recognised tag is Unknown and never an error, and each of the twelve
\* kebab-case tags (and "unknown") gives its own variant.
C23_NullAndStrangersAreUnknown ==
    icon.called =>
        /\ (\/ icon.json = JNull
            \/ icon.json.type = "String" /\ icon.json.s \notin RecognisedTags)
            => icon.result = IconOk("Unknown")
        /\ \A i \in DOMAIN IconTags :
            icon.json = JString(IconTags[i].tag)
                => icon.result = IconOk(IconTags[i].variant)

\* C24: decodes of independent inputs running side by side need no
\* coordination: in every interleaving of their steps each decode returns
\* what it returns when it runs alone.
C24_InterleavedAsAlone ==
    \A t \in DOMAIN tasks :
        tasks[t].at = "done"
            => tasks[t].result = DeserializeValue(tasks[t].value).result

\* A decode of one string began and ended while the decode of another
\* string, begun before it, was between its base64 step and its zlib attempt.
C24_Witness ==
    /\ Len(tasks) = 2
    /\ tasks[1].at = "inflate" /\ tasks[1].wrote = 1
    /\ tasks[2].at = "done" /\ tasks[2].wrote = 2
    /\ tasks[2].result.ok /\ tasks[2].result.variant = "Bytes"
    /\ tasks[1].value # tasks[2].value

====
